---- MODULE Spec2Model ----
(***************************************************************************)
(* Reality Filter: the article aggregate (internal/core/domain), the       *)
(* application service ArticleAnalyzerService (internal/application), the  *)
(* MongoDB article repository, the Redis article cache and the HTTP        *)
(* handler, as a state machine.                                            *)
(*                                                                         *)
(* float64 values are modelled as fixed-point numbers in units of 1/100    *)
(* together with the three IEEE-754 special values NaN, +Inf and -Inf;     *)
(* comparisons with NaN are false, as in Go.                               *)
(***************************************************************************)
EXTENDS Integers, Sequences, FiniteSets, TLC

\* ------------------------------------------------------------------ bounds
\* number of distinct article IDs (uuid values) the model draws from
MaxArticles == 2
\* the clock is capped: every mutating call advances it by one tick
MaxTime == 3
\* largest number of flags an in-memory article may accumulate
MaxFlags == 3
\* flag counts 0..MaxCount are tried on calculateCredibilityScore
MaxCount == 7
\* finite reputations and sentiments tried on calculateCredibilityScore are
\* the tenths -GridSpan/10 .. 1 + GridSpan/10
GridSpan == 5
\* requests served at the same time on one article
NumRequests == 2

\* ------------------------------------------------------------- float64
Fin(n) == [k |-> "fin", v |-> n]
NaN == [k |-> "nan", v |-> 0]
PosInf == [k |-> "pinf", v |-> 0]
NegInf == [k |-> "ninf", v |-> 0]

IsFin(x) == x.k = "fin"

\* x < y on float64: false as soon as one side is NaN
FLt(x, y) ==
  CASE x.k = "nan" \/ y.k = "nan" -> FALSE
    [] x.k = "fin" /\ y.k = "fin" -> x.v < y.v
    [] x.k = "ninf" -> y.k # "ninf"
    [] x.k = "pinf" -> FALSE
    [] OTHER -> y.k = "pinf"

FGt(x, y) == FLt(y, x)

FNeg(x) ==
  CASE x.k = "fin" -> Fin(-x.v)
    [] x.k = "pinf" -> NegInf
    [] x.k = "ninf" -> PosInf
    [] OTHER -> NaN

FAdd(x, y) ==
  CASE x.k = "nan" \/ y.k = "nan" -> NaN
    [] x.k = "fin" /\ y.k = "fin" -> Fin(x.v + y.v)
    [] x.k = "fin" -> y
    [] y.k = "fin" -> x
    [] x.k = y.k -> x
    [] OTHER -> NaN

FSub(x, y) == FAdd(x, FNeg(y))

\* x * (num/den) for a positive finite constant num/den
FScale(x, num, den) ==
  IF x.k = "fin" THEN Fin((x.v * num) \div den) ELSE x

\* the float64 constants of the scoring function, in units of 1/100
One == 100
Half == 50

absMutNoNegate(x) == x

abs(x) == IF FLt(x, Fin(0)) THEN FNeg(x) ELSE x

max(x, y) == IF FGt(x, y) THEN x ELSE y

minMutNoUpperClamp(x, y) == y

min(x, y) == IF FLt(x, y) THEN x ELSE y

calculateCredibilityScore(sourceScore, sentiment, numFlags) ==
  LET sentimentScore == FSub(Fin(One), FScale(abs(FSub(sentiment, Fin(Half))), 2, 1))
      flagPenalty == max(Fin(0), FSub(Fin(One), FScale(Fin(numFlags * One), 1, 5)))
      score == FAdd(FAdd(FScale(sourceScore, 4, 10), FScale(sentimentScore, 2, 10)),
                    FScale(flagPenalty, 4, 10))
  IN max(Fin(0), min(Fin(One), score))

\* ------------------------------------------------------ domain: Article
ArticleStatusPending == "PENDING"
ArticleStatusAnalyzed == "ANALYZED"
ArticleStatusFlagged == "FLAGGED"
ArticleStatusVerified == "VERIFIED"
ArticleStatusRejected == "REJECTED"

ArticleStatus ==
  {ArticleStatusPending, ArticleStatusAnalyzed, ArticleStatusFlagged,
   ArticleStatusVerified, ArticleStatusRejected}

\* uuid values; uuid.New() never returns a value handed out before
ArticleIDs == 1..MaxArticles

\* ArticleMetadata of an article not analysed yet: Entities empty, the rest zero
ZeroMetadata ==
  [Entities |-> <<>>, Sentiment |-> Fin(0), Language |-> "", WordCount |-> 0,
   ReadingTime |-> 0]

\* len(article.Content): a content is its text and the number of bytes of it
ContentLen(content) == content.bytes

NewArticle(id, title, content, source, author, tags, t) ==
  [ID |-> id, Title |-> title, Content |-> content, Source |-> source,
   Author |-> author, Tags |-> tags, CreatedAt |-> t, UpdatedAt |-> t,
   Score |-> Fin(0), Flags |-> <<>>, Status |-> ArticleStatusPending,
   MetaData |-> ZeroMetadata]

AddFlagMutKeepStatus(a, flagType, confidence, details, detectedBy, t) ==
  [a EXCEPT !.Flags = Append(a.Flags,
                        [Type |-> flagType, Confidence |-> confidence,
                         Details |-> details, DetectedAt |-> t,
                         DetectedBy |-> detectedBy]),
            !.UpdatedAt = t]

AddFlag(a, flagType, confidence, details, detectedBy, t) ==
  LET flags == Append(a.Flags,
                 [Type |-> flagType, Confidence |-> confidence,
                  Details |-> details, DetectedAt |-> t,
                  DetectedBy |-> detectedBy])
  IN [a EXCEPT !.Flags = flags,
               !.Status = IF Len(flags) > 0 THEN ArticleStatusFlagged ELSE a.Status,
               !.UpdatedAt = t]

UpdateScoreMutNoTimestamp(a, score, t) == [a EXCEPT !.Score = score]

UpdateScore(a, score, t) == [a EXCEPT !.Score = score, !.UpdatedAt = t]

UpdateStatus(a, status, t) == [a EXCEPT !.Status = status, !.UpdatedAt = t]

UpdateMetadata(a, metadata, t) == [a EXCEPT !.MetaData = metadata, !.UpdatedAt = t]

\* -------------------------------------------- MongoDB article repository
\* A BSON value used as _id: its BSON type and its content.  The canonical
\* text of uuid n and the 16 bytes of uuid n are both written n; the BSON
\* type keeps them apart, as MongoDB's equality match does.
BsonString(s) == <<"string", s>>
BsonBinary(u) == <<"binData", u>>

\* uuid.UUID.String(): the canonical text of a uuid
UUIDString(u) == u

\* the id strings a caller may pass: the canonical text of every uuid
IdStrings == {UUIDString(u) : u \in ArticleIDs}

\* the _id a uuid.UUID is encoded to in a filter bson.M{"_id": article.ID}.
\* The encoding is the one of the BSON registry of the *mongo.Client the
\* repository is constructed with: the Go driver's default registry writes a
\* [16]byte as binary data; a registry with a uuid-as-text encoder writes the
\* canonical string.
EncodeID(codec, u) ==
  IF codec = "binData" THEN BsonBinary(u) ELSE BsonString(UUIDString(u))

Codecs == {"binData", "string"}

\* a collection or a cache is a function from the keys it holds to documents
Put(f, k, v) == [x \in DOMAIN f \cup {k} |-> IF x = k THEN v ELSE f[x]]

\* Save: UpdateOne with upsert on {_id: article.ID}, $set of the whole article
Save(codec, st, article, t, driverErr) ==
  LET a == [article EXCEPT !.UpdatedAt = t,
                           !.CreatedAt = IF article.CreatedAt = 0 THEN t
                                         ELSE article.CreatedAt]
  IN IF driverErr
       THEN [article |-> a, store |-> st, err |-> "driver"]
       ELSE [article |-> a, store |-> Put(st, EncodeID(codec, a.ID), a), err |-> "nil"]

\* FindByID: FindOne on {_id: id} with id a string; ErrNoDocuments is (nil, nil).
\* The result article is a sequence: empty for a nil pointer.
FindByID(st, id, driverErr) ==
  CASE driverErr -> [article |-> <<>>, err |-> "driver"]
    [] BsonString(id) \notin DOMAIN st -> [article |-> <<>>, err |-> "nil"]
    [] OTHER -> [article |-> <<st[BsonString(id)]>>, err |-> "nil"]

UpdateMutUpsert(codec, st, article, t, driverErr) ==
  LET a == [article EXCEPT !.UpdatedAt = t]
  IN IF driverErr
       THEN [article |-> a, store |-> st, err |-> "driver"]
       ELSE [article |-> a, store |-> Put(st, EncodeID(codec, a.ID), a), err |-> "nil"]

UpdateMutKeepsStoredFlags(codec, st, article, t, driverErr) ==
  LET a == [article EXCEPT !.UpdatedAt = t]
      key == EncodeID(codec, a.ID)
  IN CASE driverErr -> [article |-> a, store |-> st, err |-> "driver"]
       [] key \notin DOMAIN st -> [article |-> a, store |-> st, err |-> "ErrNoDocuments"]
       [] OTHER -> [article |-> a,
                    store |-> Put(st, key, [a EXCEPT !.Flags = st[key].Flags]),
                    err |-> "nil"]

\* Update: UpdateOne without upsert; MatchedCount = 0 is mongo.ErrNoDocuments
Update(codec, st, article, t, driverErr) ==
  LET a == [article EXCEPT !.UpdatedAt = t]
      key == EncodeID(codec, a.ID)
  IN CASE driverErr -> [article |-> a, store |-> st, err |-> "driver"]
       [] key \notin DOMAIN st -> [article |-> a, store |-> st, err |-> "ErrNoDocuments"]
       [] OTHER -> [article |-> a, store |-> Put(st, key, a), err |-> "nil"]

\* ----------------------------------------------- Redis article cache
\* encoding/json refuses NaN and the infinities: json.Marshal(article) fails
\* when a float64 field of the article is not finite
Marshalable(article) ==
  /\ IsFin(article.Score)
  /\ IsFin(article.MetaData.Sentiment)
  /\ \A i \in DOMAIN article.Flags : IsFin(article.Flags[i].Confidence)

\* getKey: "article:" + id; the prefix is the same in Set and Get
getKey(id) == id

\* ArticleCache.Set: json.Marshal, then SET key data EX ArticleCacheTTL
CacheSet(ca, article, redisErr) ==
  IF ~Marshalable(article) \/ redisErr
    THEN [cache |-> ca, err |-> "error"]
    ELSE [cache |-> Put(ca, getKey(UUIDString(article.ID)), article), err |-> "nil"]

\* ArticleCache.Get: GET key; redis.Nil (no such key) is (nil, nil), any other
\* error is returned; the data is the JSON that Set wrote, and json.Unmarshal
\* gives back every field of the article.  The result article is a sequence:
\* empty for a nil pointer.
CacheGet(ca, id, redisErr) ==
  CASE redisErr -> [article |-> <<>>, err |-> "error"]
    [] getKey(id) \notin DOMAIN ca -> [article |-> <<>>, err |-> "nil"]
    [] OTHER -> [article |-> <<ca[getKey(id)]>>, err |-> "nil"]

\* ------------------------------------- ArticleAnalyzerService (application)
\* one call made on a port during a service call, and whether it returned nil
Call(port, method, ok) == [port |-> port, method |-> method, ok |-> ok]

\* one in-place change of an in-memory article during a service call: the
\* status it found, did Flags, Score, Status or MetaData change, the UpdatedAt
\* it left, the time
Mutation(op, before, after, t) ==
  [op |-> op,
   was |-> before.Status,
   changed |-> <<before.Flags, before.Score, before.Status, before.MetaData>>
               # <<after.Flags, after.Score, after.Status, after.MetaData>>,
   updatedAt |-> after.UpdatedAt,
   at |-> t]

\* steps 1 to 5 of AnalyzeArticle, in program order
AnalyzerSteps ==
  << [port |-> "contentAnalyzer", method |-> "AnalyzeSentiment"],
     [port |-> "contentAnalyzer", method |-> "ExtractEntities"],
     [port |-> "contentAnalyzer", method |-> "DetectBias"],
     [port |-> "factChecker", method |-> "CheckFacts"],
     [port |-> "factChecker", method |-> "GetSourceReputation"] >>

AnalyzerCallsMutFourSteps(failAt) ==
  [i \in 1..(IF failAt = 0 THEN Len(AnalyzerSteps) - 1 ELSE failAt) |->
     Call(AnalyzerSteps[i].port, AnalyzerSteps[i].method, i # failAt)]

\* the analyzer calls of a run whose step failAt returns an error (0: none
\* does): every step before it returned nil, no step after it is called
AnalyzerCalls(failAt) ==
  [i \in 1..(IF failAt = 0 THEN Len(AnalyzerSteps) ELSE failAt) |->
     Call(AnalyzerSteps[i].port, AnalyzerSteps[i].method, i # failAt)]

\* an article in the middle of a service call, with the changes made so far
Stage(prev, op, after, t) ==
  [article |-> after, steps |-> Append(prev.steps, Mutation(op, prev.article, after, t))]

Unchanged(article) == [article |-> article, steps |-> <<>>]

\* article.UpdateMetadata(domain.ArticleMetadata{...})
WithMetadata(s, e, t) ==
  Stage(s, "UpdateMetadata",
        UpdateMetadata(s.article,
          [Entities |-> e.entities, Sentiment |-> e.sentiment, Language |-> "en",
           WordCount |-> ContentLen(s.article.Content),
           ReadingTime |-> ContentLen(s.article.Content) \div 200], t), t)

\* for _, flag := range flags { article.AddFlag(..., detectedBy) }
RECURSIVE WithFlags(_, _, _, _)
WithFlags(s, flags, detectedBy, t) ==
  IF flags = <<>>
    THEN s
    ELSE WithFlags(Stage(s, "AddFlag",
                         AddFlag(s.article, Head(flags).Type, Head(flags).Confidence,
                                 Head(flags).Details, detectedBy, t), t),
                   Tail(flags), detectedBy, t)

\* the flag count handed to calculateCredibilityScore: len(article.Flags)
ScoredFlagCountMutThisRunOnly(before, after) == Len(after.Flags) - Len(before.Flags)

ScoredFlagCount(before, after) == Len(after.Flags)

\* article.UpdateScore(calculateCredibilityScore(sourceScore, sentiment, len(article.Flags)))
WithScore(s, before, e, t) ==
  Stage(s, "UpdateScore",
        UpdateScore(s.article,
          calculateCredibilityScore(e.rep, e.sentiment, ScoredFlagCount(before, s.article)),
          t), t)

\* the status AnalyzeArticle sets once the flags are added
AnalyzedStatusMutAlwaysAnalyzed(a) == ArticleStatusAnalyzed

AnalyzedStatusMutKeepsStatus(a) == a.Status

AnalyzedStatus(a) ==
  IF Len(a.Flags) > 0 THEN ArticleStatusFlagged ELSE ArticleStatusAnalyzed

WithStatus(s, t) ==
  Stage(s, "UpdateStatus", UpdateStatus(s.article, AnalyzedStatus(s.article), t), t)

\* the in-memory part of AnalyzeArticle, after the five analyzer calls
Analysis(s, e, t) ==
  WithStatus(
    WithScore(
      WithFlags(WithFlags(WithMetadata(s, e, t), e.bias, "bias_detector", t),
                e.facts, "fact_checker", t),
      s.article, e, t),
    t)

\* the result of a service call: the article after the call, the error
\* returned, the port calls made in order, the in-memory changes made in
\* order, and the collection and the cache after the call
Outcome(article, result, calls, steps, st, ca) ==
  [article |-> article, result |-> result, calls |-> calls, steps |-> steps,
   store |-> st, cache |-> ca]

\* the event calls that follow the cache call: PublishArticleFlagged only for
\* a flagged article
Publish(article, e) ==
  <<Call("eventPublisher", "PublishArticleAnalyzed", ~e.pubAErr)>>
  \o (IF article.Status = ArticleStatusFlagged
        THEN <<Call("eventPublisher", "PublishArticleFlagged", ~e.pubFErr)>>
        ELSE <<>>)

AfterUpdateMutCacheErrorReturned(s, up, set, e) ==
  IF set.err # "nil"
    THEN Outcome(up.article, "error",
                 AnalyzerCalls(0) \o <<Call("repository", "Update", TRUE),
                                       Call("cache", "Set", FALSE)>>,
                 s.steps, up.store, set.cache)
    ELSE Outcome(up.article, "nil",
                 AnalyzerCalls(0) \o <<Call("repository", "Update", TRUE),
                                       Call("cache", "Set", TRUE)>>
                 \o Publish(up.article, e),
                 s.steps, up.store, set.cache)

PersistMutCacheBeforeUpdate(st, ca, s, up, e) ==
  Outcome(up.article, IF up.err # "nil" THEN "error" ELSE "nil",
          AnalyzerCalls(0) \o <<Call("cache", "Set", ~e.cacheErr),
                                Call("repository", "Update", up.err = "nil")>>
          \o (IF up.err # "nil" THEN <<>> ELSE Publish(up.article, e)),
          s.steps, up.store, CacheSet(ca, up.article, e.cacheErr).cache)

\* after a successful repository.Update: cache.Set, then the events; their
\* errors are logged and the call returns nil
AfterUpdate(s, up, set, e) ==
  Outcome(up.article, "nil",
          AnalyzerCalls(0) \o <<Call("repository", "Update", TRUE),
                                Call("cache", "Set", set.err = "nil")>>
          \o Publish(up.article, e),
          s.steps, up.store, set.cache)

\* "Persist the results": a failing repository.Update ends the call
Persist(st, ca, s, up, e) ==
  IF up.err # "nil"
    THEN Outcome(up.article, "error",
                 AnalyzerCalls(0) \o <<Call("repository", "Update", FALSE)>>,
                 s.steps, st, ca)
    ELSE AfterUpdate(s, up, CacheSet(ca, up.article, e.cacheErr), e)

Analyzed(codec, st, ca, s, e, t) ==
  Persist(st, ca, s, Update(codec, st, s.article, t, e.updateErr), e)

\* AnalyzeArticle(ctx, article), on an article with the changes `s.steps`
\* already made to it by the caller
AnalyzeArticle(codec, st, ca, s, e, t) ==
  IF e.failAt # 0
    THEN Outcome(s.article, "error", AnalyzerCalls(e.failAt), s.steps, st, ca)
    ELSE Analyzed(codec, st, ca, Analysis(s, e, t), e, t)

\* ------------------------------------------------------------- inputs
\* bodies of POST /articles: title, content, source and author are required
Requests ==
  { [Title |-> "t1", Content |-> [text |-> "c1", bytes |-> 40], Source |-> "s1",
     Author |-> "a1", Tags |-> <<"tag">>],
    [Title |-> "t2", Content |-> [text |-> "c2", bytes |-> 450], Source |-> "s2",
     Author |-> "a2", Tags |-> <<>>],
    [Title |-> "", Content |-> [text |-> "c1", bytes |-> 40], Source |-> "s1",
     Author |-> "a1", Tags |-> <<>>] }

\* binding:"required" of the request struct
Binds(req) ==
  req.Title # "" /\ req.Content.bytes > 0 /\ req.Source # "" /\ req.Author # ""

\* what the pluggable analyzers may return in one run: the values of the
\* mocks wired in by main (sentiment 0.5, reputation 0.8, no entity, no flag),
\* and runs with flags, with values outside [0,1] and with a NaN sentiment
BiasFlag == [Type |-> "BIASED", Confidence |-> Fin(90), Details |-> "b"]
FactFlag == [Type |-> "FACTUAL_ERROR", Confidence |-> Fin(70), Details |-> "f"]
PersonEntity == [Type |-> "PERSON", Value |-> "e1"]

\* the values of the mocks wired in by main
CleanRun ==
  [sentiment |-> Fin(Half), entities |-> <<>>, bias |-> <<>>, facts |-> <<>>,
   rep |-> Fin(80)]

\* a run in which both detectors flag the article
FlaggedRun ==
  [sentiment |-> Fin(Half), entities |-> <<PersonEntity>>, bias |-> <<BiasFlag>>,
   facts |-> <<FactFlag>>, rep |-> Fin(80)]

\* a run whose sentiment and reputation lie outside [0,1]
OutOfRangeRun ==
  [sentiment |-> Fin(-20), entities |-> <<PersonEntity>>, bias |-> <<BiasFlag>>,
   facts |-> <<>>, rep |-> Fin(150)]

\* a run whose sentiment analyzer returns NaN
NaNRun ==
  [sentiment |-> NaN, entities |-> <<>>, bias |-> <<>>, facts |-> <<FactFlag>>,
   rep |-> Fin(80)]

AnalyzerResults == {CleanRun, FlaggedRun, OutOfRangeRun, NaNRun}

\* the outcome of every port call of one analysis: the step that fails (0:
\* none), the values the analyzers return, and the errors of the repository
\* driver, the cache and the event publisher
EnvOf(failAt, res, updateErr, cacheErr, pubAErr, pubFErr) ==
  [failAt |-> failAt, sentiment |-> res.sentiment, entities |-> res.entities,
   bias |-> res.bias, facts |-> res.facts, rep |-> res.rep, updateErr |-> updateErr,
   cacheErr |-> cacheErr, pubAErr |-> pubAErr, pubFErr |-> pubFErr]

NoResults ==
  [sentiment |-> Fin(0), entities |-> <<>>, bias |-> <<>>, facts |-> <<>>, rep |-> Fin(0)]

NoEnv == EnvOf(0, NoResults, FALSE, FALSE, FALSE, FALSE)

\* Every analyzer step may fail; every result may be followed by a failing or
\* a successful repository.Update; the cache and publisher errors are tried in
\* every combination on the clean and on the flagged run
Envs ==
  {EnvOf(k, NoResults, FALSE, FALSE, FALSE, FALSE) : k \in 1..Len(AnalyzerSteps)}
  \cup {EnvOf(0, res, u, FALSE, FALSE, FALSE) : res \in AnalyzerResults, u \in BOOLEAN}
  \cup {EnvOf(0, CleanRun, FALSE, x[1], x[2], FALSE) : x \in BOOLEAN \X BOOLEAN}
  \cup {EnvOf(0, FlaggedRun, FALSE, x[1], x[2], x[3]) :
          x \in BOOLEAN \X BOOLEAN \X BOOLEAN}

\* ------------------------------------------------------------- state
VARIABLES
  codec,    \* how the client's BSON registry encodes a uuid.UUID
  store,    \* the articles collection: _id -> document
  cache,    \* the Redis keys article:<id> -> article
  mem,      \* the articles the in-process caller holds: uuid -> *Article
  now,      \* the wall clock
  last,     \* the last call: its name, result, response, port calls, changes
  calc,     \* the reputation and sentiment under test, and a score computed of them
  inflight  \* the requests being served step by step, and the order of their writes

vars == <<codec, store, cache, mem, now, last, calc, inflight>>

Empty == [x \in {} |-> 0]

Last(op, id, result, code, body, calls, steps, e) ==
  [op |-> op, id |-> id, result |-> result, code |-> code, body |-> body,
   calls |-> calls, steps |-> steps, env |-> e]

NoCalc == [rep |-> Fin(0), sentiment |-> Fin(0), numFlags |-> 0, score |-> <<>>]

NoRequests == [reqs |-> <<>>, writes |-> <<>>]

Init ==
  /\ codec \in Codecs
  /\ store = Empty
  /\ cache = Empty
  /\ mem = Empty
  /\ now = 0
  /\ last = Last("none", 0, "nil", 0, <<>>, <<>>, <<>>, NoEnv)
  /\ calc = NoCalc
  /\ inflight = NoRequests

\* uuid.New(): a uuid not handed out before
NewID == CHOOSE u \in ArticleIDs \ DOMAIN mem : \A w \in ArticleIDs \ DOMAIN mem : u <= w

\* POST /articles: Handler.CreateArticle, NewArticle, service CreateArticle, Save
CreateArticle(req, driverErr) ==
  /\ now < MaxTime
  /\ now' = now + 1
  /\ UNCHANGED <<calc, inflight>>
  /\ IF ~Binds(req)
       THEN /\ last' = Last("CreateArticle", 0, "error", 400, <<>>, <<>>, <<>>, NoEnv)
            /\ UNCHANGED <<codec, store, cache, mem>>
       ELSE /\ ArticleIDs \ DOMAIN mem # {}
            /\ LET article == NewArticle(NewID, req.Title, req.Content, req.Source,
                                         req.Author, req.Tags, now')
                   sv == Save(codec, store, article, now', driverErr)
               IN /\ store' = sv.store
                  /\ mem' = Put(mem, article.ID, sv.article)
                  /\ last' = Last("CreateArticle", UUIDString(article.ID),
                                  IF sv.err = "nil" THEN "nil" ELSE "error",
                                  IF sv.err = "nil" THEN 201 ELSE 500,
                                  <<sv.article>>,
                                  <<Call("repository", "Save", sv.err = "nil")>>,
                                  <<>>, NoEnv)
                  /\ UNCHANGED <<codec, cache>>

\* the ArticleManager port called in process: CreateArticle(ctx, article) on an
\* article the caller holds, stored before or not; the service calls Save
Saved(h, sv) ==
  /\ store' = sv.store
  /\ mem' = Put(mem, h, sv.article)
  /\ last' = Last("CreateArticle", UUIDString(h),
                  IF sv.err = "nil" THEN "nil" ELSE "error", 0, <<sv.article>>,
                  <<Call("repository", "Save", sv.err = "nil")>>, <<>>, NoEnv)

CreateHeld(h, driverErr) ==
  /\ now < MaxTime
  /\ now' = now + 1
  /\ UNCHANGED <<calc, inflight>>
  /\ h \in DOMAIN mem
  /\ Saved(h, Save(codec, store, mem[h], now', driverErr))
  /\ UNCHANGED <<codec, cache>>

\* the flags of an article stay within the model's bound
Fits(article, e) == Len(article.Flags) + Len(e.bias) + Len(e.facts) <= MaxFlags

\* the HTTP status of a handler that answers 500 on an error or a panic
\* (gin.Recovery) and `okCode` otherwise
StatusOf(result, okCode) == IF result = "nil" THEN okCode ELSE 500

\* the state after a service call on a stored article ended with outcome r
Commit(op, id, okCode, find, r, e) ==
  /\ store' = r.store
  /\ cache' = r.cache
  /\ last' = Last(op, id, r.result, StatusOf(r.result, okCode), <<r.article>>,
                  find \o r.calls, r.steps, e)

\* an in-process caller of the ArticleAnalyzer port: AnalyzeArticle(ctx, article)
\* on the article it holds
CommitHeld(h, r, e) ==
  /\ store' = r.store
  /\ cache' = r.cache
  /\ mem' = Put(mem, h, r.article)
  /\ last' = Last("AnalyzeArticle", UUIDString(h), r.result, 0, <<r.article>>,
                  r.calls, r.steps, e)

AnalyzeHeld(h, e) ==
  /\ now < MaxTime
  /\ now' = now + 1
  /\ UNCHANGED <<calc, inflight>>
  /\ h \in DOMAIN mem
  /\ Fits(mem[h], e)
  /\ CommitHeld(h, AnalyzeArticle(codec, store, cache, Unchanged(mem[h]), e, now'), e)
  /\ UNCHANGED codec

\* the answer of a call that got no article from FindByID: a driver error, or
\* a nil article that the caller dereferences (a panic, 500 under gin.Recovery)
NotFound(op, id, found, errCode) ==
  /\ last' = Last(op, id, IF found.err # "nil" THEN "error" ELSE "panic",
                  IF found.err # "nil" THEN errCode ELSE 500, <<>>,
                  <<Call("repository", "FindByID", found.err = "nil")>>, <<>>, NoEnv)
  /\ UNCHANGED <<store, cache>>

\* POST /articles/:id/analyze: Handler.AnalyzeArticle.  A nil article from
\* GetArticle is dereferenced by AnalyzeArticle (article.Content): a panic
AnalyzeFound(id, found) ==
  IF found.err # "nil" \/ found.article = <<>>
    THEN NotFound("HandlerAnalyzeArticle", id, found, 404)
    ELSE \E e \in Envs :
           /\ Fits(found.article[1], e)
           /\ Commit("HandlerAnalyzeArticle", id, 200,
                     <<Call("repository", "FindByID", TRUE)>>,
                     AnalyzeArticle(codec, store, cache, Unchanged(found.article[1]), e,
                                    now'), e)

HandlerAnalyzeArticle(id, findErr) ==
  /\ now < MaxTime
  /\ now' = now + 1
  /\ UNCHANGED <<calc, inflight>>
  /\ AnalyzeFound(id, FindByID(store, id, findErr))
  /\ UNCHANGED <<codec, mem>>

ClearAnalysisMutKeepsFlags(article) ==
  [article EXCEPT !.Score = Fin(0), !.Status = ArticleStatusPending,
                  !.MetaData = ZeroMetadata]

\* "Clear existing analysis results": four plain field assignments
ClearAnalysis(article) ==
  [article EXCEPT !.Flags = <<>>, !.Score = Fin(0), !.Status = ArticleStatusPending,
                  !.MetaData = ZeroMetadata]

\* POST /articles/:id/reprocess: Handler.ReprocessArticle and the service's
\* ReprocessArticle.  A nil article from FindByID is assigned to
\* (article.Flags = ...): a panic
ReprocessFound(id, found) ==
  IF found.err # "nil" \/ found.article = <<>>
    THEN NotFound("ReprocessArticle", id, found, 500)
    ELSE \E e \in Envs :
           Commit("ReprocessArticle", id, 202,
                  <<Call("repository", "FindByID", TRUE)>>,
                  AnalyzeArticle(codec, store, cache,
                                 Stage(Unchanged(found.article[1]), "ClearAnalysis",
                                       ClearAnalysis(found.article[1]), now'),
                                 e, now'), e)

ReprocessArticle(id, findErr) ==
  /\ now < MaxTime
  /\ now' = now + 1
  /\ UNCHANGED <<calc, inflight>>
  /\ ReprocessFound(id, FindByID(store, id, findErr))
  /\ UNCHANGED <<codec, mem>>

\* the ArticleManager port: UpdateArticleStatus(ctx, id, status).  A nil
\* article from FindByID is written to by UpdateStatus: a panic
StatusUpdated(id, s, up) ==
  /\ store' = up.store
  /\ last' = Last("UpdateArticleStatus", id, IF up.err = "nil" THEN "nil" ELSE "error",
                  0, <<up.article>>,
                  <<Call("repository", "FindByID", TRUE),
                    Call("repository", "Update", up.err = "nil")>>,
                  s.steps, NoEnv)
  /\ UNCHANGED cache

\* article.UpdateStatus(status), then repository.Update(ctx, article)
UpdateStaged(id, s, updateErr) ==
  StatusUpdated(id, s, Update(codec, store, s.article, now', updateErr))

UpdateFound(id, status, found, updateErr) ==
  IF found.err # "nil" \/ found.article = <<>>
    THEN NotFound("UpdateArticleStatus", id, found, 0)
    ELSE UpdateStaged(id,
           Stage(Unchanged(found.article[1]), "UpdateStatus",
                 UpdateStatus(found.article[1], status, now'), now'),
           updateErr)

UpdateArticleStatus(id, status, findErr, updateErr) ==
  /\ now < MaxTime
  /\ now' = now + 1
  /\ UNCHANGED <<calc, inflight>>
  /\ UpdateFound(id, status, FindByID(store, id, findErr), updateErr)
  /\ UNCHANGED <<codec, mem>>

\* GET /articles/:id: Handler.GetArticle and the service's GetArticle.  The
\* body is the article, or JSON null for a nil article
Answer(id, found) ==
  last' = Last("GetArticle", id, IF found.err = "nil" THEN "nil" ELSE "error",
               IF found.err = "nil" THEN 200 ELSE 404, found.article,
               <<Call("repository", "FindByID", found.err = "nil")>>, <<>>, NoEnv)

GetArticle(id, findErr) ==
  /\ now < MaxTime
  /\ now' = now + 1
  /\ UNCHANGED <<calc, inflight>>
  /\ Answer(id, FindByID(store, id, findErr))
  /\ UNCHANGED <<codec, store, cache, mem>>

\* the answer of GET /articles/:id/analysis: 404 on an error of the service;
\* the handler reads article.ID, a panic (500 under gin.Recovery) when the
\* service returned a nil article and a nil error
AnalysisAnswer(id, article, result, calls) ==
  last' = Last("GetAnalysisResult", id, result,
               CASE result = "error" -> 404
                 [] result = "panic" \/ article = <<>> -> 500
                 [] OTHER -> 200,
               article, calls, <<>>, NoEnv)

\* "If not in cache, get from repository" and "Update cache for next time".
\* cache.Set of a nil article panics in article.ID.String()
AnalysisFallback(id, found, setErr) ==
  CASE found.err # "nil" ->
         /\ AnalysisAnswer(id, <<>>, "error",
                           <<Call("cache", "Get", FALSE), Call("repository", "FindByID", FALSE)>>)
         /\ UNCHANGED cache
    [] found.err = "nil" /\ found.article = <<>> ->
         /\ AnalysisAnswer(id, <<>>, "panic",
                           <<Call("cache", "Get", FALSE), Call("repository", "FindByID", TRUE),
                             Call("cache", "Set", FALSE)>>)
         /\ UNCHANGED cache
    [] OTHER ->
         /\ cache' = CacheSet(cache, found.article[1], setErr).cache
         /\ AnalysisAnswer(id, found.article, "nil",
                           <<Call("cache", "Get", FALSE), Call("repository", "FindByID", TRUE),
                             Call("cache", "Set",
                                  CacheSet(cache, found.article[1], setErr).err = "nil")>>)

\* "Try cache first": whatever cache.Get returns with a nil error is returned
AnalysisCached(id, got, findErr, setErr) ==
  IF got.err = "nil"
    THEN /\ AnalysisAnswer(id, got.article, "nil", <<Call("cache", "Get", TRUE)>>)
         /\ UNCHANGED cache
    ELSE AnalysisFallback(id, FindByID(store, id, findErr), setErr)

\* GET /articles/:id/analysis: Handler.GetAnalysisResult and the service's
\* GetAnalysisResult, with the redis ArticleCache that main wires in
GetAnalysisResult(id, getErr, findErr, setErr) ==
  /\ now < MaxTime
  /\ now' = now + 1
  /\ UNCHANGED <<calc, inflight>>
  /\ AnalysisCached(id, CacheGet(cache, id, getErr), findErr, setErr)
  /\ UNCHANGED <<codec, store, mem>>

Next ==
  \/ \E h \in ArticleIDs, driverErr \in BOOLEAN : CreateHeld(h, driverErr)
  \/ \E id \in IdStrings, getErr \in BOOLEAN, findErr \in BOOLEAN, setErr \in BOOLEAN :
       GetAnalysisResult(id, getErr, findErr, setErr)
  \/ \E req \in Requests, driverErr \in BOOLEAN : CreateArticle(req, driverErr)
  \/ \E h \in ArticleIDs, e \in Envs : AnalyzeHeld(h, e)
  \/ \E id \in IdStrings, findErr \in BOOLEAN : HandlerAnalyzeArticle(id, findErr)
  \/ \E id \in IdStrings, findErr \in BOOLEAN : ReprocessArticle(id, findErr)
  \/ \E id \in IdStrings, status \in ArticleStatus, findErr \in BOOLEAN,
        updateErr \in BOOLEAN :
       UpdateArticleStatus(id, status, findErr, updateErr)
  \/ \E id \in IdStrings, findErr \in BOOLEAN : GetArticle(id, findErr)

Spec == Init /\ [][Next]_vars

\* ---------------------------------------- the scoring function on a grid
\* finite reputations and sentiments: the tenths from -GridSpan/10 to
\* 1 + GridSpan/10, in units of 1/100
Grid == {Fin(10 * i) : i \in (0 - GridSpan)..(10 + GridSpan)}

InitScore ==
  /\ codec \in Codecs
  /\ store = Empty
  /\ cache = Empty
  /\ mem = Empty
  /\ now = 0
  /\ last = Last("none", 0, "nil", 0, <<>>, <<>>, <<>>, NoEnv)
  /\ \E r \in Grid, s \in Grid :
       calc = [rep |-> r, sentiment |-> s, numFlags |-> 0, score |-> <<>>]
  /\ inflight = NoRequests

\* calculateCredibilityScore applied to the drawn values and a flag count
ComputeScore(n) ==
  /\ calc.score = <<>>
  /\ mem = Empty
  /\ calc' = [calc EXCEPT !.numFlags = n,
                          !.score = <<calculateCredibilityScore(calc.rep, calc.sentiment, n)>>]
  /\ UNCHANGED <<codec, store, cache, mem, now, last, inflight>>

\* a run of the analyzers that return the drawn values and the given flags
GridEnv(bias, facts) ==
  EnvOf(0, [sentiment |-> calc.sentiment, entities |-> <<>>, bias |-> bias,
            facts |-> facts, rep |-> calc.rep], FALSE, FALSE, FALSE, FALSE)

\* one article is created and analysed, repeatedly, with the drawn values
ScoreCreate ==
  /\ calc.score = <<>>
  /\ mem = Empty
  /\ \E req \in Requests : Binds(req) /\ req.Tags # <<>> /\ CreateArticle(req, FALSE)

ScoreAnalyze(h, bias, facts) ==
  /\ calc.score = <<>>
  /\ AnalyzeHeld(h, GridEnv(bias, facts))

NextScore ==
  \/ \E n \in 0..MaxCount : ComputeScore(n)
  \/ ScoreCreate
  \/ \E h \in ArticleIDs, bias \in {<<>>, <<BiasFlag>>}, facts \in {<<>>, <<FactFlag>>} :
       ScoreAnalyze(h, bias, facts)

SpecScore == InitScore /\ [][NextScore]_vars

\* --------------------------- requests served at the same time on one article
\* The service holds no lock and the document no version: a request is a
\* FindByID, changes to its own copy of the article, and a repository.Update
\* of the whole document; requests interleave between the two repository calls.
RequestKinds ==
  {[op |-> o, status |-> ArticleStatusPending, results |-> r] :
     o \in {"HandlerAnalyzeArticle", "ReprocessArticle"}, r \in {CleanRun, FlaggedRun}}
  \cup {[op |-> "UpdateArticleStatus", status |-> st, results |-> NoResults] :
          st \in {ArticleStatusVerified, ArticleStatusRejected}}

\* the one article of the concurrent runs
Target == CHOOSE h \in DOMAIN mem : TRUE

\* one article is created and stored
ConcCreate ==
  /\ mem = Empty
  /\ \E req \in Requests : Binds(req) /\ req.Tags # <<>> /\ CreateArticle(req, FALSE)

\* a request for the article arrives
Arrive(kind) ==
  /\ mem # Empty
  /\ Len(inflight.reqs) < NumRequests
  /\ inflight' = [inflight EXCEPT !.reqs =
                    Append(@, [kind |-> kind, pc |-> "start", snapshot |-> <<>>,
                               wrote |-> <<>>])]
  /\ UNCHANGED <<codec, store, cache, mem, now, last, calc>>

\* the request's FindByID: it keeps the document it read; a nil article is
\* dereferenced next, and the request ends in a panic
ReadSnapshot(i, found) ==
  inflight' = [inflight EXCEPT !.reqs[i].snapshot = found.article,
                               !.reqs[i].pc = IF found.article = <<>> THEN "done"
                                              ELSE "read"]

Read(i) ==
  /\ i \in DOMAIN inflight.reqs
  /\ inflight.reqs[i].pc = "start"
  /\ ReadSnapshot(i, FindByID(store, UUIDString(Target), FALSE))
  /\ UNCHANGED <<codec, store, cache, mem, now, last, calc>>

\* the rest of the request: the changes to the copy it read, then
\* repository.Update (and, for an analysis, cache.Set and the events)
WriteBack(id, kind, doc) ==
  CASE kind.op = "UpdateArticleStatus" ->
         UpdateStaged(id, Stage(Unchanged(doc), "UpdateStatus",
                                UpdateStatus(doc, kind.status, now'), now'), FALSE)
    [] kind.op = "ReprocessArticle" ->
         Commit(kind.op, id, 202, <<Call("repository", "FindByID", TRUE)>>,
                AnalyzeArticle(codec, store, cache,
                               Stage(Unchanged(doc), "ClearAnalysis", ClearAnalysis(doc), now'),
                               EnvOf(0, kind.results, FALSE, FALSE, FALSE, FALSE), now'),
                EnvOf(0, kind.results, FALSE, FALSE, FALSE, FALSE))
    [] OTHER ->
         Commit(kind.op, id, 200, <<Call("repository", "FindByID", TRUE)>>,
                AnalyzeArticle(codec, store, cache, Unchanged(doc),
                               EnvOf(0, kind.results, FALSE, FALSE, FALSE, FALSE), now'),
                EnvOf(0, kind.results, FALSE, FALSE, FALSE, FALSE))

Write(i) ==
  /\ i \in DOMAIN inflight.reqs
  /\ inflight.reqs[i].pc = "read"
  /\ now < MaxTime
  /\ now' = now + 1
  /\ WriteBack(UUIDString(Target), inflight.reqs[i].kind, inflight.reqs[i].snapshot[1])
  /\ inflight' = [inflight EXCEPT !.reqs[i].pc = "done",
                                  !.reqs[i].wrote = last'.body,
                                  !.writes = Append(@, i)]
  /\ UNCHANGED <<codec, mem, calc>>

NextConc ==
  \/ ConcCreate
  \/ \E kind \in RequestKinds : Arrive(kind)
  \/ \E i \in 1..NumRequests : Read(i)
  \/ \E i \in 1..NumRequests : Write(i)

SpecConc == Init /\ [][NextConc]_vars

\* ====================================================== claims
\* every article of the state: persisted, held in memory, or returned by the
\* last call
AllArticles ==
  {store[k] : k \in DOMAIN store} \cup {mem[h] : h \in DOMAIN mem}
  \cup {last.body[i] : i \in DOMAIN last.body}

\* the calls that run AnalyzeArticle
AnalyzeOps == {"AnalyzeArticle", "HandlerAnalyzeArticle", "ReprocessArticle"}

\* the positions of the calls of one method in a sequence of port calls
Positions(calls, port, method) ==
  {i \in DOMAIN calls : calls[i].port = port /\ calls[i].method = method}

Flagless(a) == Len(a.Flags) > 0 /\ a.Status # ArticleStatusFlagged

\* C1 (as stated): in every reachable state every article that has at least
\* one flag, in memory or persisted, has status FLAGGED.
C1_FlagsImplyFlagged == \A a \in AllArticles : ~Flagless(a)

\* C1 (amended): an article with a flag and a status other than FLAGGED is
\* never produced by CreateArticle, AnalyzeArticle or ReprocessArticle: it
\* first appears in a step of UpdateArticleStatus, which sets the status it is
\* given and keeps the flags.
C1_OnlyUpdateArticleStatusUnflags ==
  [][\A a \in AllArticles' :
       Flagless(a) => (a \in AllArticles \/ last'.op = "UpdateArticleStatus")]_vars

\* C1 witness: an analysis has persisted an article with flags, status FLAGGED
C1_Witness ==
  /\ last.op \in AnalyzeOps
  /\ last.result = "nil"
  /\ Len(last.body[1].Flags) > 0
  /\ last.body[1].Status = ArticleStatusFlagged
  /\ \E k \in DOMAIN store : store[k] = last.body[1]

\* the score the claim states, on fixed-point values in units of 1/100:
\* clamp01(0.4*r + 0.2*(1 - 2*|s - 0.5|) + 0.4*max(0, 1 - n/5))
ClaimedScore(r, s, n) ==
  LET dist == IF s - 50 < 0 THEN 50 - s ELSE s - 50
      penalty == IF 100 - 20 * n < 0 THEN 0 ELSE 100 - 20 * n
      raw == (4 * r + 2 * (100 - 2 * dist) + 4 * penalty) \div 10
  IN IF raw < 0 THEN 0 ELSE IF raw > 100 THEN 100 ELSE raw

\* C2: on the grid of finite reputations and sentiments (values outside [0,1]
\* included) and flag counts, calculateCredibilityScore returns the clamped
\* weighted sum of the claim; and the score AnalyzeArticle stores is that sum
\* for the number of flags the article has once this run's flags are added.
C2_ScoreFormula ==
  /\ calc.score # <<>> =>
       calc.score[1] = Fin(ClaimedScore(calc.rep.v, calc.sentiment.v, calc.numFlags))
  /\ (last.op = "AnalyzeArticle" /\ last.env.failAt = 0) =>
       last.body[1].Score =
         Fin(ClaimedScore(last.env.rep.v, last.env.sentiment.v, Len(last.body[1].Flags)))

\* C2 witness: an article that already had flags is analysed again, with a
\* reputation above 1, and this run adds a flag
C2_Witness ==
  /\ last.op = "AnalyzeArticle"
  /\ last.env.failAt = 0
  /\ last.env.rep.v > One
  /\ Len(last.env.bias) + Len(last.env.facts) > 0
  /\ Len(last.body[1].Flags) > Len(last.env.bias) + Len(last.env.facts)

\* C3 (as stated): the Score of every article lies in [0,1], whatever the
\* reputation and sentiment providers return.
C3_ScoreInUnitInterval ==
  \A a \in AllArticles : IsFin(a.Score) /\ 0 <= a.Score.v /\ a.Score.v <= One

\* C4 (as stated): every step that changes Flags, Score, Status or MetaData of
\* an article, the resets of ReprocessArticle included, sets UpdatedAt to the
\* current time in that same step.
C4_EveryMutationStamps ==
  \A i \in DOMAIN last.steps :
    last.steps[i].changed => last.steps[i].updatedAt = last.steps[i].at

\* C5: in AnalyzeArticle cache.Set is attempted only after repository.Update
\* returned nil; when repository.Update fails the call returns an error and
\* neither cache.Set nor an event publication is attempted.
C5_RepositoryBeforeCache ==
  last.op \in AnalyzeOps =>
    /\ \A i \in Positions(last.calls, "cache", "Set") :
         \E j \in 1..(i - 1) : last.calls[j] = Call("repository", "Update", TRUE)
    /\ (\E j \in DOMAIN last.calls : last.calls[j] = Call("repository", "Update", FALSE)) =>
         /\ last.result = "error"
         /\ \A i \in DOMAIN last.calls :
              last.calls[i].port \notin {"cache", "eventPublisher"}

\* C5 witness: repository.Update failed in an analysis
C5_Witness ==
  /\ last.op \in AnalyzeOps
  /\ \E j \in DOMAIN last.calls : last.calls[j] = Call("repository", "Update", FALSE)

\* C6: once repository.Update succeeded AnalyzeArticle returns nil whichever
\* of cache.Set, PublishArticleAnalyzed and PublishArticleFlagged fail; each
\* is attempted at most once, and cache.Set and PublishArticleAnalyzed are
\* attempted whether or not the cache failed.
C6_LogAndContinue ==
  (/\ last.op \in AnalyzeOps
   /\ \E j \in DOMAIN last.calls : last.calls[j] = Call("repository", "Update", TRUE)) =>
    /\ last.result = "nil"
    /\ Cardinality(Positions(last.calls, "cache", "Set")) = 1
    /\ Cardinality(Positions(last.calls, "eventPublisher", "PublishArticleAnalyzed")) = 1
    /\ Cardinality(Positions(last.calls, "eventPublisher", "PublishArticleFlagged"))
         = IF last.body[1].Status = ArticleStatusFlagged THEN 1 ELSE 0

\* C6 witness: the cache and both publications failed, and the call returned nil
C6_Witness ==
  /\ last.op \in AnalyzeOps
  /\ last.result = "nil"
  /\ \E i, j, k \in DOMAIN last.calls :
       /\ last.calls[i] = Call("cache", "Set", FALSE)
       /\ last.calls[j] = Call("eventPublisher", "PublishArticleAnalyzed", FALSE)
       /\ last.calls[k] = Call("eventPublisher", "PublishArticleFlagged", FALSE)

\* the calls of the last call made on the analyzer and checker ports
AnalyzerPositions ==
  {i \in DOMAIN last.calls : last.calls[i].port \in {"contentAnalyzer", "factChecker"}}

\* C7 (as stated): a run of AnalyzeArticle makes exactly four calls to the
\* analyzer/checker interfaces.
C7_FourAnalyzerCalls ==
  (last.op \in AnalyzeOps /\ last.result = "nil") => Cardinality(AnalyzerPositions) = 4

\* C7 (amended): a run of AnalyzeArticle calls AnalyzeSentiment,
\* ExtractEntities, DetectBias, CheckFacts and GetSourceReputation in this
\* order, one after the other; a call that returns an error is the last call
\* of the run; the article is changed and the repository and the cache are
\* written only after all five returned nil.
C7_FiveSequentialCalls ==
  last.op \in AnalyzeOps =>
    LET first == IF last.op = "AnalyzeArticle" THEN 1 ELSE 2
        count == Cardinality(AnalyzerPositions)
        ran == \E i \in DOMAIN last.steps : last.steps[i].op # "ClearAnalysis"
        wrote == \E i \in DOMAIN last.calls :
                   last.calls[i].port \in {"cache", "eventPublisher"}
                   \/ (last.calls[i].port = "repository" /\ last.calls[i].method = "Update")
    IN /\ count <= 5
       /\ AnalyzerPositions = first..(first + count - 1)
       /\ \A i \in AnalyzerPositions :
            /\ last.calls[i].method = AnalyzerSteps[i - first + 1].method
            /\ last.calls[i].port = AnalyzerSteps[i - first + 1].port
            /\ ~last.calls[i].ok => i = Len(last.calls)
       /\ (ran \/ wrote \/ last.result = "nil") =>
            /\ count = 5
            /\ \A i \in AnalyzerPositions : last.calls[i].ok

\* C7 witness: a run that returned nil
C7_Witness ==
  /\ last.op \in AnalyzeOps
  /\ last.result = "nil"
  /\ Cardinality(AnalyzerPositions) = 5

\* what a document holds besides the times of its writes
Untimed(a) ==
  [Flags |-> [i \in DOMAIN a.Flags |->
                [Type |-> a.Flags[i].Type, Confidence |-> a.Flags[i].Confidence,
                 DetectedBy |-> a.Flags[i].DetectedBy]],
   Score |-> a.Score, Status |-> a.Status, MetaData |-> a.MetaData]

\* the article a request of the given kind leaves when it is served alone on
\* the document doc
Served(kind, doc, t) ==
  CASE kind.op = "UpdateArticleStatus" -> UpdateStatus(doc, kind.status, t)
    [] kind.op = "ReprocessArticle" ->
         Analysis(Unchanged(ClearAnalysis(doc)),
                  EnvOf(0, kind.results, FALSE, FALSE, FALSE, FALSE), t).article
    [] OTHER ->
         Analysis(Unchanged(doc), EnvOf(0, kind.results, FALSE, FALSE, FALSE, FALSE),
                  t).article

\* the document after the requests are served one after the other, in order
RECURSIVE Serial(_, _, _)
Serial(order, doc, t) ==
  IF order = <<>>
    THEN doc
    ELSE Serial(Tail(order), Served(inflight.reqs[Head(order)].kind, doc, t + 1), t + 1)

\* the orders of the requests
Orders ==
  {o \in [DOMAIN inflight.reqs -> DOMAIN inflight.reqs] :
     \A i, j \in DOMAIN o : o[i] = o[j] => i = j}

\* the request whose repository.Update came last
LastWriter == inflight.reqs[inflight.writes[Len(inflight.writes)]]

\* C8 (as stated): requests served at the same time on one article are
\* serialisable: once all have written, the persisted document is the one
\* some serial order of the requests leaves.
C8_Serializable ==
  (inflight.writes # <<>> /\ Len(inflight.writes) = Len(inflight.reqs)) =>
    \E o \in Orders :
      Untimed(store[EncodeID(codec, Target)]) = Untimed(Serial(o, mem[Target], 1))

\* C8 (amended): requests served at the same time on one article are not
\* serialisable; the last writer wins: the persisted document is the whole
\* document the request whose repository.Update came last wrote, and it is
\* what that request makes of the document it read, whatever the other
\* requests wrote in between.
C8_LastWriterWins ==
  inflight.writes # <<>> =>
    /\ store[EncodeID(codec, Target)] = LastWriter.wrote[1]
    /\ Untimed(LastWriter.wrote[1])
         = Untimed(Served(LastWriter.kind, LastWriter.snapshot[1], now))

\* C8 witness: a status update that read the article before an analysis
\* wrote its flags writes after it, and the flags are lost
C8_Witness ==
  /\ Len(inflight.writes) >= 2
  /\ LastWriter.kind.op = "UpdateArticleStatus"
  /\ LastWriter.snapshot = <<mem[Target]>>
  /\ inflight.reqs[inflight.writes[1]].wrote[1].Flags # <<>>
  /\ store[EncodeID(codec, Target)].Flags = <<>>

\* the uuid whose canonical text is the id of the last call, if there is one
Created(u) == UUIDString(u) = last.id /\ EncodeID(codec, u) \in DOMAIN store

\* C9 (as stated): once CreateArticle has stored an article with ID X,
\* GetArticle with the string form of X returns that article: non-nil, with
\* the ID, title, content, source, author, tags and status that are stored.
C9_CreateGetRoundTrip ==
  \A u \in ArticleIDs :
    (last.op = "GetArticle" /\ last.result = "nil" /\ Created(u)) =>
      /\ last.body # <<>>
      /\ last.body[1] = store[EncodeID(codec, u)]

\* C10 (as stated): GET /articles/:id for an id that has no document in the
\* repository answers 404, never 200.
C10_MissingIs404 ==
  (last.op = "GetArticle" /\ \A k \in DOMAIN store : k[2] # last.id) =>
    last.code = 404

\* C11 (as stated): POST /articles/:id/analyze for an id that has no document
\* in the repository answers 404 and makes no analyzer, fact checker,
\* repository write, cache or event call.
C11_MissingAnalyzeIs404 ==
  (last.op = "HandlerAnalyzeArticle" /\ \A k \in DOMAIN store : k[2] # last.id) =>
    /\ last.code = 404
    /\ \A i \in DOMAIN last.calls : last.calls[i].method = "FindByID"

\* C12 (as stated): GetAnalysisResult, with the redis ArticleCache: when the
\* cache holds an entry for the id, the entry is returned and the repository is
\* not read; when the cache holds none and the repository holds the article,
\* the repository's article is returned and written to the cache.
C12_CacheFirstWithFallback ==
  [][(last'.op = "GetAnalysisResult"
      /\ \A i \in DOMAIN last'.calls : last'.calls[i].ok) =>
       /\ getKey(last'.id) \in DOMAIN cache =>
            /\ last'.body = <<cache[getKey(last'.id)]>>
            /\ \A i \in DOMAIN last'.calls : last'.calls[i].port # "repository"
       /\ (getKey(last'.id) \notin DOMAIN cache /\ BsonString(last'.id) \in DOMAIN store) =>
            /\ last'.body = <<store[BsonString(last'.id)]>>
            /\ getKey(last'.id) \in DOMAIN cache'
            /\ cache'[getKey(last'.id)] = store[BsonString(last'.id)]]_vars

\* the flags of a run, as AddFlag records them: the bias detector's, then the
\* fact checker's
RunFlags(e) ==
  [i \in 1..(Len(e.bias) + Len(e.facts)) |->
     IF i <= Len(e.bias)
       THEN [Type |-> e.bias[i].Type, Confidence |-> e.bias[i].Confidence,
             DetectedBy |-> "bias_detector"]
       ELSE [Type |-> e.facts[i - Len(e.bias)].Type,
             Confidence |-> e.facts[i - Len(e.bias)].Confidence,
             DetectedBy |-> "fact_checker"]]

\* what an analysis of an article without earlier results leaves, as a
\* function of the article's content and of the run's analyzer results
FreshAnalysis(content, e) ==
  [Flags |-> RunFlags(e),
   Score |-> calculateCredibilityScore(e.rep, e.sentiment, Len(e.bias) + Len(e.facts)),
   Status |-> IF Len(e.bias) + Len(e.facts) > 0 THEN ArticleStatusFlagged
              ELSE ArticleStatusAnalyzed,
   MetaData |-> [Entities |-> e.entities, Sentiment |-> e.sentiment, Language |-> "en",
                 WordCount |-> ContentLen(content),
                 ReadingTime |-> ContentLen(content) \div 200]]

Reprocessed(l) == l.op = "ReprocessArticle" /\ l.result = "nil"

\* C13: after a successful ReprocessArticle the flags of the article are
\* exactly the flags of this run, and its score, status and metadata are what
\* this run's results give for its content, whatever was stored before; the
\* persisted document is that article; and a second ReprocessArticle with the
\* same analyzer results leaves the same flags, score, status and metadata.
C13_ReprocessIsFresh ==
  [][Reprocessed(last') =>
       /\ Untimed(last'.body[1]) = FreshAnalysis(last'.body[1].Content, last'.env)
       /\ store'[BsonString(last'.id)] = last'.body[1]
       /\ (/\ Reprocessed(last)
           /\ last.id = last'.id
           /\ EnvOf(0, last.env, FALSE, FALSE, FALSE, FALSE)
                = EnvOf(0, last'.env, FALSE, FALSE, FALSE, FALSE)) =>
            Untimed(last'.body[1]) = Untimed(last.body[1])]_vars

\* C13 witness: a ReprocessArticle succeeded on an article that had results of
\* an earlier analysis, with a run that flags nothing
C13_Witness ==
  /\ Reprocessed(last)
  /\ last.steps[1].op = "ClearAnalysis"
  /\ last.steps[1].changed
  /\ last.env.bias = <<>> /\ last.env.facts = <<>>
  /\ last.body[1].Flags = <<>>
  /\ last.body[1].Status = ArticleStatusAnalyzed

\* C14 (as stated): ReprocessArticle for an id that has no document in the
\* repository returns an error, and makes no analyzer call, no repository
\* write, no cache write and no event publication.
C14_MissingReprocessIsError ==
  (last.op = "ReprocessArticle" /\ \A k \in DOMAIN store : k[2] # last.id) =>
    /\ last.result = "error"
    /\ \A i \in DOMAIN last.calls : last.calls[i].method = "FindByID"

\* the _id of the article the last call wrote or tried to write
WrittenKey(l) == EncodeID(codec, l.body[1].ID)

\* C15: a successful Save leaves exactly one document for the article's ID,
\* the article saved, created when there was none and overwritten when there
\* was one, and touches no other document; the store never holds two
\* documents of one ID; a repository.Update for an ID without a document
\* returns an error and leaves the store as it was.
C15_UpsertSemantics ==
  [][/\ \A k1, k2 \in DOMAIN store' : store'[k1].ID = store'[k2].ID => k1 = k2
     /\ (last'.op = "CreateArticle" /\ last'.result = "nil") =>
          /\ DOMAIN store' = DOMAIN store \cup {WrittenKey(last')}
          /\ store'[WrittenKey(last')] = last'.body[1]
          /\ \A k \in DOMAIN store : k # WrittenKey(last') => store'[k] = store[k]
     /\ (/\ \E i \in DOMAIN last'.calls : last'.calls[i].method = "Update"
         /\ WrittenKey(last') \notin DOMAIN store) =>
          /\ store' = store
          /\ last'.result = "error"
          /\ \A i \in DOMAIN last'.calls :
               last'.calls[i].method = "Update" => ~last'.calls[i].ok]_vars

\* C15 witness: repository.Update of an article that has no document (its Save
\* failed) returned ErrNoDocuments, and the store holds no document for it
C15_Witness ==
  /\ last.op = "AnalyzeArticle"
  /\ last.env.failAt = 0
  /\ ~last.env.updateErr
  /\ last.result = "error"
  /\ WrittenKey(last) \notin DOMAIN store

\* C16: after a successful AnalyzeArticle, whatever the status of the article
\* was before, its status is FLAGGED if it has a flag and ANALYZED if it has
\* none, and the persisted document has that status.
C16_StatusAfterAnalysis ==
  (last.op \in AnalyzeOps /\ last.result = "nil") =>
    /\ last.body[1].Status = IF Len(last.body[1].Flags) > 0 THEN ArticleStatusFlagged
                             ELSE ArticleStatusAnalyzed
    /\ WrittenKey(last) \in DOMAIN store
    /\ store[WrittenKey(last)].Status = last.body[1].Status

\* C16 witness: an article that UpdateArticleStatus had set VERIFIED is
\* analysed through POST /articles/:id/analyze
C16_Witness ==
  /\ last.op = "HandlerAnalyzeArticle"
  /\ last.result = "nil"
  /\ last.steps[1].was = ArticleStatusVerified

\* C17: on the grid, for the reputation, sentiment and flag count a score was
\* computed of: one more flag does not raise the score; from 5 flags on the
\* score is the score at 5 flags; a reputation one tenth higher does not lower
\* it; and the score at sentiment 0.5 is not below it.
C17_ScoreMonotone ==
  calc.score # <<>> =>
    /\ IsFin(calc.score[1])
    /\ calculateCredibilityScore(calc.rep, calc.sentiment, calc.numFlags + 1).v
         <= calc.score[1].v
    /\ calc.numFlags >= 5 =>
         calc.score[1] = calculateCredibilityScore(calc.rep, calc.sentiment, 5)
    /\ calculateCredibilityScore(FAdd(calc.rep, Fin(10)), calc.sentiment, calc.numFlags).v
         >= calc.score[1].v
    /\ calculateCredibilityScore(calc.rep, Fin(Half), calc.numFlags).v >= calc.score[1].v

\* C17 witness: a score strictly between 0 and 1 computed for more than 5
\* flags and a sentiment below 0.5
C17_Witness ==
  /\ calc.score # <<>>
  /\ calc.numFlags > 5
  /\ calc.sentiment.v < Half
  /\ 0 < calc.score[1].v /\ calc.score[1].v < One

====
